---------------------------- MODULE Spec2Model ----------------------------
(***************************************************************************)
(* A model of src/app.py: the Health Triage Assistant form.                *)
(*                                                                         *)
(* Python values are records [ty, s, n]: ty is the Python type, s the text *)
(* of a str (or the repr of a float), n the value of an int.  A Python str *)
(* is a TLA+ string, taken apart character by character where the code     *)
(* strips, lower-cases, searches or rewrites it.  A Python dict is the     *)
(* sequence of its <<key, value>> pairs in insertion order.                *)
(* The three duration phrases of DUR_TOKEN_TO_DISPLAY are written in ASCII *)
(* ("<= 1 day", "2-3 days", ">= 3 days").                                  *)
(***************************************************************************)
EXTENDS Integers, Sequences, FiniteSets, TLC

VARIABLES
    schemaFile,     \* what ui_assets/feature_schema.json holds
    startup,        \* "loading", "ok", or "error" (an exception left the script)
    CAT_COLS,       \* module globals set by the schema loader
    NUM_COLS,
    EXPECTED_COLS,
    le,             \* the label encoder, or NoEncoder
    age_disp,       \* the age selectbox
    selected,       \* the symptom multiselect, in selection order
    widgets,        \* the follow-up selectboxes, by widget key
    outcome,        \* what the last script run rendered
    reruns,         \* how many times an interaction has run the script again
    arg,            \* the argument of the function under study
    ret             \* what it returned

vars == <<schemaFile, startup, CAT_COLS, NUM_COLS, EXPECTED_COLS, le,
          age_disp, selected, widgets, outcome, reruns, arg, ret>>

----------------------------------------------------------------------------
(* Bounds of the model *)

MaxReruns == 3        \* interactions of one form session
MaxKeys == 2          \* keys of a payload handed to make_input_df
MaxEdits == 1         \* answers changed in a payload handed to the scorer
MaxSchemaCols == 1    \* names in a list of the schema file
MaxClassIndex == 4    \* largest class index the classifier returns

----------------------------------------------------------------------------
(* Python values *)

PyNone == [ty |-> "NoneType", s |-> "", n |-> 0]
PyStr(t) == [ty |-> "str", s |-> t, n |-> 0]
PyInt(i) == [ty |-> "int", s |-> "", n |-> i]
PyFloat(r) == [ty |-> "float", s |-> r, n |-> 0]
NaN == PyFloat("nan")

\* bool(v)
Truthy(v) ==
    CASE v.ty = "NoneType" -> FALSE
      [] v.ty = "str" -> v.s # ""
      [] v.ty = "int" -> v.n # 0
      [] OTHER -> TRUE

Digit(d) == SubSeq("0123456789", d + 1, d + 1)

RECURSIVE NatToStr(_)
NatToStr(i) == IF i < 10 THEN Digit(i) ELSE NatToStr(i \div 10) \o Digit(i % 10)

\* str(v), as text
PyToStr(v) ==
    CASE v.ty = "NoneType" -> "None"
      [] v.ty = "str" -> v.s
      [] v.ty = "int" -> IF v.n < 0 THEN "-" \o NatToStr(0 - v.n) ELSE NatToStr(v.n)
      [] OTHER -> v.s

Char(t, i) == SubSeq(t, i, i)

IsSpace(c) == c = " "

\* str.strip()
Strip(t) ==
    LET Keep == {i \in 1..Len(t) : ~IsSpace(Char(t, i))}
    IN  IF Keep = {} THEN ""
        ELSE LET lo == CHOOSE i \in Keep : \A j \in Keep : i <= j
                 hi == CHOOSE i \in Keep : \A j \in Keep : j <= i
             IN  SubSeq(t, lo, hi)

UpperCase == "ABCDEFGHIJKLMNOPQRSTUVWXYZ"
LowerCase == "abcdefghijklmnopqrstuvwxyz"

LowerChar(c) ==
    IF \E i \in 1..Len(UpperCase) : Char(UpperCase, i) = c
    THEN LET i == CHOOSE i \in 1..Len(UpperCase) : Char(UpperCase, i) = c
         IN  Char(LowerCase, i)
    ELSE c

\* str.lower()
RECURSIVE Lower(_)
Lower(t) == IF t = "" THEN "" ELSE LowerChar(Char(t, 1)) \o Lower(SubSeq(t, 2, Len(t)))

\* sub in t
Contains(t, sub) ==
    \E i \in 1..(Len(t) - Len(sub) + 1) : SubSeq(t, i, i + Len(sub) - 1) = sub

\* t.startswith(prefix)
StartsWith(t, prefix) ==
    Len(prefix) <= Len(t) /\ SubSeq(t, 1, Len(prefix)) = prefix

\* t.replace(old, new), old not empty
RECURSIVE Replace(_, _, _)
Replace(t, old, new) ==
    IF Len(t) < Len(old) THEN t
    ELSE IF SubSeq(t, 1, Len(old)) = old
         THEN new \o Replace(SubSeq(t, Len(old) + 1, Len(t)), old, new)
         ELSE Char(t, 1) \o Replace(SubSeq(t, 2, Len(t)), old, new)

----------------------------------------------------------------------------
(* Python dicts: sequences of <<key, value>> in insertion order *)

DictKeys(d) == [i \in 1..Len(d) |-> d[i][1]]

HasKey(d, k) == \E i \in 1..Len(d) : d[i][1] = k

\* d.get(k, default)
DictGet(d, k, default) ==
    IF HasKey(d, k) THEN d[CHOOSE i \in 1..Len(d) : d[i][1] = k][2] ELSE default

\* d[k] = v
DictSet(d, k, v) ==
    IF HasKey(d, k)
    THEN [i \in 1..Len(d) |-> IF d[i][1] = k THEN <<k, v>> ELSE d[i]]
    ELSE Append(d, <<k, v>>)

\* d.setdefault(k, v)
SetDefault(d, k, v) == IF HasKey(d, k) THEN d ELSE Append(d, <<k, v>>)

\* d.update(other): the keys d has keep their place and take other's value,
\* the keys it has not are appended in other's order
DictUpdate(d, other) ==
    [i \in 1..Len(d) |-> <<d[i][1], DictGet(other, d[i][1], d[i][2])>>]
    \o SelectSeq(other, LAMBDA e : ~HasKey(d, e[1]))

\* {c: v for c in cols}: a key is inserted where cols names it first
DictFromKeys(cols, v) ==
    LET first == SelectSeq([i \in 1..Len(cols) |-> i],
                           LAMBDA i : \A j \in 1..(i - 1) : cols[j] # cols[i])
    IN  [k \in 1..Len(first) |-> <<cols[first[k]], v>>]

----------------------------------------------------------------------------
(* Module constants of app.py *)

CAT_FALLBACK ==
    << "Has_Fever", "Fever_Level", "Fever_Duration_Level", "Chills",
       "Has_Cough", "Cough_Type", "Cough_Duration_Level", "Blood_Cough", "Breath_Difficulty",
       "Has_Headache", "Headache_Severity", "Headache_Duration_Level", "Photophobia", "Neck_Stiffness",
       "Has_Abdominal_Pain", "Pain_Location", "Pain_Duration_Level", "Nausea", "Diarrhea",
       "Has_Fatigue", "Fatigue_Severity", "Fatigue_Duration_Level", "Weight_Loss", "Fever_With_Fatigue",
       "Has_Vomiting", "Vomiting_Severity", "Vomiting_Duration_Level", "Blood_Vomit", "Unable_To_Keep_Fluids",
       "Age_Group" >>

NUM_FALLBACK == << "Red_Flag_Count" >>

YN_DISPLAY == << "Yes", "No" >>
YN_MAP == << <<"Yes", "haa">>, <<"No", "maya">> >>

SEV_DISPLAY == << "mild", "moderate", "very severe" >>
SEV_MAP == << <<"mild", "fudud">>, <<"moderate", "dhexdhexaad">>, <<"very severe", "aad u daran">> >>

COUGH_DISPLAY == << "dry", "wet/productive" >>
COUGH_MAP == << <<"dry", "qalalan">>, <<"wet/productive", "qoyan">> >>

PAIN_DISPLAY == << "upper abdomen", "lower abdomen", "whole abdomen" >>
PAIN_MAP ==
    << <<"upper abdomen", "caloosha sare">>, <<"lower abdomen", "caloosha hoose">>,
       <<"whole abdomen", "caloosha oo dhan">> >>

AGE_DISPLAY == << "child", "adult", "elderly" >>
AGE_MAP == << <<"child", "caruur">>, <<"adult", "qof weyn">>, <<"elderly", "waayeel">> >>

DUR_TOKEN_TO_DISPLAY ==
    << <<"fudud", "<= 1 day">>,
       <<"dhexdhexaad", "2-3 days">>,
       <<"dhexdhexaad ah", "2-3 days">>,
       <<"aad u daran", ">= 3 days">> >>

\* DurCanonical without the collapsing of the two spellings
DurCanonicalKeep(k) == k

\* the value the comprehension stores for the token k
DurCanonical(k) == IF StartsWith(k, "dhexdhexaad") THEN "dhexdhexaad" ELSE k

\* {v: canonical(k) for k, v in items}: a later item overwrites an earlier one
RECURSIVE DurReverse(_)
DurReverse(items) ==
    IF items = <<>> THEN <<>>
    ELSE LET last == items[Len(items)]
         IN  DictSet(DurReverse(SubSeq(items, 1, Len(items) - 1)),
                     last[2], DurCanonical(last[1]))

DUR_DISPLAY_TO_TOKEN == DurReverse(DUR_TOKEN_TO_DISPLAY)

\* list(dict.fromkeys(values))
DUR_DISPLAY == DictKeys(DictFromKeys([i \in 1..Len(DUR_TOKEN_TO_DISPLAY) |-> DUR_TOKEN_TO_DISPLAY[i][2]], PyNone))

TipHome == "Rest at home, drink plenty of fluids, eat light meals, consider simple pain/fever relievers if needed, and monitor symptoms for 24 hours. Seek care if symptoms worsen."
TipClinic == "Visit a clinic within 24 hours for evaluation. Bring any prior prescriptions or records and keep hydrated."
TipEmergency == "Go to the hospital immediately. Do not try home treatment. If possible, go with someone and bring prior prescriptions/records."
TipGeneral == "General advice: if you are concerned about your condition, contact a healthcare provider."

TRIAGE_TIPS ==
    << <<"Xaalad fudud (Daryeel guri)", TipHome>>,
       <<"Xaalad dhax dhaxaad eh (Bukaan socod)", TipClinic>>,
       <<"Xaalad dhax dhaxaad ah (Bukaan socod)", TipClinic>>,
       <<"Xaalad deg deg ah", TipEmergency>> >>

LABEL_SO_TO_EN ==
    << <<"Xaalad fudud (Daryeel guri)", "Mild condition (Home care)">>,
       <<"Xaalad dhax dhaxaad eh (Bukaan socod)", "Moderate condition (Outpatient)">>,
       <<"Xaalad dhax dhaxaad ah (Bukaan socod)", "Moderate condition (Outpatient)">>,
       <<"Xaalad deg deg ah", "Emergency">> >>

Red == << "#FFEBEE", "#B71C1C", "#EF9A9A" >>
Amber == << "#FFF8E1", "#8D6E00", "#FFD54F" >>
Green == << "#E8F5E9", "#1B5E20", "#A5D6A7" >>

----------------------------------------------------------------------------
(* Helpers of app.py *)

\* pd.to_numeric(v, errors="coerce") of a scalar
IsDigits(t) == t # "" /\ \A i \in 1..Len(t) : \E d \in 0..9 : Char(t, i) = Digit(d)

RECURSIVE StrToNat(_)
StrToNat(t) ==
    IF t = "" THEN 0
    ELSE 10 * StrToNat(SubSeq(t, 1, Len(t) - 1))
         + (CHOOSE d \in 0..9 : Char(t, Len(t)) = Digit(d))

ToNumeric(v) ==
    CASE v.ty = "int" -> v
      [] v.ty = "float" -> v
      [] v.ty = "str" /\ IsDigits(v.s) -> PyInt(StrToNat(v.s))
      [] OTHER -> NaN

\* CatValue without the strip
CatValueNoStrip(v) ==
    IF v = PyNone THEN NaN
    ELSE IF PyToStr(v) = "" THEN NaN ELSE PyStr(PyToStr(v))

\* the loop over CAT_COLS, one column
CatValue(v) ==
    IF v = PyNone THEN NaN
    ELSE LET s == Strip(PyToStr(v))
         IN  IF s = "" THEN NaN ELSE PyStr(s)

\* for c in CAT_COLS: row[c] = ...  (row holds every column of cols)
CoerceCats(row, cols) ==
    [i \in 1..Len(row) |->
        IF \E j \in 1..Len(cols) : cols[j] = row[i][1]
        THEN <<row[i][1], CatValue(row[i][2])>>
        ELSE row[i]]

\* for c in NUM_COLS: row[c] = ...  (row holds every column of cols)
CoerceNums(row, cols) ==
    [i \in 1..Len(row) |->
        IF \E j \in 1..Len(cols) : cols[j] = row[i][1]
        THEN <<row[i][1], ToNumeric(row[i][2])>>
        ELSE row[i]]

\* the argument of make_input_df: a dict, or None
Dict(items) == [ty |-> "dict", items |-> items]
NoneDict == [ty |-> "NoneType", items |-> << >>]

\* payload or {}
OrEmpty(pl) == IF pl.ty = "NoneType" THEN << >> ELSE pl.items

\* make_input_df under the schema (cat, num): the one row of the table, its
\* keys being the table's columns in order
MakeInputDf(payload, cat, num) ==
    LET row0 == DictFromKeys(cat \o num, NaN)
        row1 == DictUpdate(row0, OrEmpty(payload))
    IN  CoerceNums(CoerceCats(row1, cat), num)

make_input_df(pl) == MakeInputDf(pl, CAT_COLS.items, NUM_COLS.items)

----------------------------------------------------------------------------
(* The label encoder and decode_label *)

NoEncoder == [present |-> FALSE, classes |-> << >>]
Encoder(classes) == [present |-> TRUE, classes |-> classes]

\* what a call left behind when an exception came out of it
Raised == [ty |-> "raised", s |-> "", n |-> 0]

\* le.inverse_transform([y])[0] for an encoder fitted on enc.classes: the
\* class at index y, or an exception when y is no index of a class
inverse_transform(enc, y) ==
    IF y.n \in 0..(Len(enc.classes) - 1) THEN PyStr(enc.classes[y.n + 1]) ELSE Raised

\* isinstance(y, (int, np.integer))
IsInteger(y) == y.ty = "int"

\* the body of decode_label's try block: a value, Raised, or PyNone when the
\* block falls through
DecodeTry(enc, y) ==
    IF enc # NoEncoder /\ IsInteger(y) THEN inverse_transform(enc, y) ELSE PyNone

\* DecodeLabel without the except clause
DecodeLabelNoExcept(enc, y) ==
    LET r == DecodeTry(enc, y)
    IN  IF r = PyNone THEN PyStr(PyToStr(y)) ELSE r

DecodeLabel(enc, y) ==
    LET r == DecodeTry(enc, y)
    IN  IF r = Raised \/ r = PyNone THEN PyStr(PyToStr(y)) ELSE r

decode_label(y) == DecodeLabel(le, y)

----------------------------------------------------------------------------
(* Presentation *)

\* triage_style_from_token without the lower()
StyleCaseSensitive(label_token) ==
    LET t == IF Truthy(label_token) THEN label_token.s ELSE ""
    IN  IF Contains(t, "deg deg") THEN Red
        ELSE IF Contains(t, "dhax dhaxaad") THEN Amber
        ELSE Green

triage_style_from_token(label_token) ==
    LET t == Lower(IF Truthy(label_token) THEN label_token.s ELSE "")
    IN  IF Contains(t, "deg deg") THEN Red
        ELSE IF Contains(t, "dhax dhaxaad") THEN Amber
        ELSE Green

\* LABEL_SO_TO_EN.get(label_token, label_token)
LabelEn(label_token) == DictGet(LABEL_SO_TO_EN, label_token.s, label_token.s)

\* TRIAGE_TIPS.get(label_token) or the general advice
TipText(label_token) ==
    LET tip == DictGet(TRIAGE_TIPS, label_token.s, "")
    IN  IF tip # "" THEN tip ELSE TipGeneral

----------------------------------------------------------------------------
(* The form *)

SYMPTOMS ==
    << [name |-> "Fever", flag |-> "Has_Fever",
        fields |-> << <<"Fever_Level", "Fever severity", "sev">>,
                      <<"Fever_Duration_Level", "Fever duration", "dur">>,
                      <<"Chills", "Chills", "yn">> >>],
       [name |-> "Cough", flag |-> "Has_Cough",
        fields |-> << <<"Cough_Type", "Type of cough", "cough">>,
                      <<"Cough_Duration_Level", "Cough duration", "dur">>,
                      <<"Blood_Cough", "Coughing blood", "yn">>,
                      <<"Breath_Difficulty", "Shortness of breath", "yn">> >>],
       [name |-> "Headache", flag |-> "Has_Headache",
        fields |-> << <<"Headache_Severity", "Headache severity", "sev">>,
                      <<"Headache_Duration_Level", "Headache duration", "dur">>,
                      <<"Photophobia", "Light sensitivity", "yn">>,
                      <<"Neck_Stiffness", "Stiff neck", "yn">> >>],
       [name |-> "Abdominal pain", flag |-> "Has_Abdominal_Pain",
        fields |-> << <<"Pain_Location", "Abdominal pain location", "painloc">>,
                      <<"Pain_Duration_Level", "Abdominal pain duration", "dur">>,
                      <<"Nausea", "Nausea", "yn">>,
                      <<"Diarrhea", "Diarrhea", "yn">> >>],
       [name |-> "Fatigue", flag |-> "Has_Fatigue",
        fields |-> << <<"Fatigue_Severity", "Fatigue severity", "sev">>,
                      <<"Fatigue_Duration_Level", "Fatigue duration", "dur">>,
                      <<"Weight_Loss", "Unintentional weight loss", "yn">> >>],
       [name |-> "Vomiting", flag |-> "Has_Vomiting",
        fields |-> << <<"Vomiting_Severity", "Vomiting severity", "sev">>,
                      <<"Vomiting_Duration_Level", "Vomiting duration", "dur">>,
                      <<"Blood_Vomit", "Vomiting blood", "yn">>,
                      <<"Unable_To_Keep_Fluids", "Unable to keep fluids down", "yn">> >>] >>

\* SYMPTOMS[group]
Cfg(group) == SYMPTOMS[CHOOSE i \in 1..Len(SYMPTOMS) : SYMPTOMS[i].name = group]

SymptomNames == [i \in 1..Len(SYMPTOMS) |-> SYMPTOMS[i].name]

ALL_FLAGS == [i \in 1..Len(SYMPTOMS) |-> SYMPTOMS[i].flag]

\* f"{group}:{col}"
WidgetKey(group, col) == group \o ":" \o col

\* the options a selectbox of this type offers
Options(wtype) ==
    CASE wtype = "yn" -> YN_DISPLAY
      [] wtype = "sev" -> SEV_DISPLAY
      [] wtype = "cough" -> COUGH_DISPLAY
      [] wtype = "painloc" -> PAIN_DISPLAY
      [] wtype = "dur" -> DUR_DISPLAY
      [] OTHER -> << >>

\* m.get(disp)
MapGet(m, disp) == IF HasKey(m, disp.s) THEN PyStr(DictGet(m, disp.s, "")) ELSE PyNone

\* render_select, disp being what the selectbox holds
render_select(wtype, disp) ==
    IF disp = PyNone THEN PyNone
    ELSE CASE wtype = "yn" -> MapGet(YN_MAP, disp)
           [] wtype = "sev" -> MapGet(SEV_MAP, disp)
           [] wtype = "cough" -> MapGet(COUGH_MAP, disp)
           [] wtype = "painloc" -> MapGet(PAIN_MAP, disp)
           [] wtype = "dur" -> IF HasKey(DUR_DISPLAY_TO_TOKEN, disp.s)
                               THEN PyStr(DictGet(DUR_DISPLAY_TO_TOKEN, disp.s, ""))
                               ELSE disp
           [] OTHER -> PyNone

\* for flag in ALL_FLAGS: payload.setdefault(flag, "maya")
RECURSIVE DefaultFlags(_, _)
DefaultFlags(pl, flags) ==
    IF flags = <<>> THEN pl
    ELSE DefaultFlags(SetDefault(pl, flags[1], PyStr("maya")), Tail(flags))

\* the follow-ups of one selected symptom
RECURSIVE AddFields(_, _, _, _)
AddFields(pl, group, fields, w) ==
    IF fields = <<>> THEN pl
    ELSE LET col == fields[1][1]
             val == render_select(fields[1][3], w[WidgetKey(group, col)])
         IN  AddFields(IF val # PyNone THEN DictSet(pl, col, val) ELSE pl,
                       group, Tail(fields), w)

\* for group in selected: ...
RECURSIVE AddSelected(_, _, _)
AddSelected(pl, sel, w) ==
    IF sel = <<>> THEN pl
    ELSE LET cfg == Cfg(sel[1])
         IN  AddSelected(AddFields(DictSet(pl, cfg.flag, PyStr("haa")), sel[1], cfg.fields, w),
                         Tail(sel), w)

\* AddFeverWithFatigue with either symptom in place of both
AddFeverWithFatigueEither(pl) ==
    IF DictGet(pl, "Has_Fever", PyNone) = PyStr("haa")
       \/ DictGet(pl, "Has_Fatigue", PyNone) = PyStr("haa")
    THEN DictSet(pl, "Fever_With_Fatigue", PyStr("haa"))
    ELSE pl

\* the derived feature (fever + fatigue)
AddFeverWithFatigue(pl) ==
    IF DictGet(pl, "Has_Fever", PyNone) = PyStr("haa")
       /\ DictGet(pl, "Has_Fatigue", PyNone) = PyStr("haa")
    THEN DictSet(pl, "Fever_With_Fatigue", PyStr("haa"))
    ELSE pl

DangerKeys == << "Breath_Difficulty", "Blood_Cough", "Neck_Stiffness", "Blood_Vomit", "Unable_To_Keep_Fluids" >>

SeverityKeys == << "Fever_Severity", "Headache_Severity", "Fatigue_Severity", "Vomiting_Severity" >>

\* sevk.replace("_Severity", "_Level")
LevelKey(sevk) == Replace(sevk, "_Severity", "_Level")

\* a or b
PyOr(a, b) == IF Truthy(a) THEN a ELSE b

\* pl.get(sevk) or pl.get(sevk.replace("_Severity", "_Level"))
SeverityAnswer(pl, sevk) == PyOr(DictGet(pl, sevk, PyNone), DictGet(pl, LevelKey(sevk), PyNone))

RECURSIVE CountDanger(_, _)
CountDanger(pl, keys) ==
    IF keys = <<>> THEN 0
    ELSE (IF DictGet(pl, keys[1], PyNone) = PyStr("haa") THEN 1 ELSE 0)
         + CountDanger(pl, Tail(keys))

RECURSIVE CountSevere(_, _)
CountSevere(pl, keys) ==
    IF keys = <<>> THEN 0
    ELSE (IF SeverityAnswer(pl, keys[1]) = PyStr("aad u daran") THEN 1 ELSE 0)
         + CountSevere(pl, Tail(keys))

\* compute_red_flag_count counting the "_Severity" and the "_Level" answers each
CountBothKeys(pl) ==
    CountDanger(pl, DangerKeys)
    + Cardinality({i \in 1..Len(SeverityKeys) :
                      DictGet(pl, SeverityKeys[i], PyNone) = PyStr("aad u daran")})
    + Cardinality({i \in 1..Len(SeverityKeys) :
                      DictGet(pl, LevelKey(SeverityKeys[i]), PyNone) = PyStr("aad u daran")})

compute_red_flag_count(pl) == CountDanger(pl, DangerKeys) + CountSevere(pl, SeverityKeys)

\* if "Red_Flag_Count" in NUM_COLS: payload["Red_Flag_Count"] = ...
AddRedFlagCount(pl, num) ==
    IF \E i \in 1..Len(num) : num[i] = "Red_Flag_Count"
    THEN DictSet(pl, "Red_Flag_Count", PyInt(compute_red_flag_count(pl)))
    ELSE pl

\* the payload one script run builds from what the widgets hold
BuildPayload(age, sel, w, num) ==
    LET p0 == IF Truthy(age) THEN << <<"Age_Group", MapGet(AGE_MAP, age)>> >> ELSE << >>
        p1 == DefaultFlags(p0, ALL_FLAGS)
        p2 == AddSelected(p1, sel, w)
        p3 == AddFeverWithFatigue(p2)
    IN  AddRedFlagCount(p3, num)

payload == BuildPayload(age_disp, selected, widgets, NUM_COLS.items)

----------------------------------------------------------------------------
(* The schema loader *)

\* what json.load gives for a value of the schema file, and what the globals
\* CAT_COLS, NUM_COLS and EXPECTED_COLS hold: jt is the Python type, items the
\* elements of a list (a number written as its text), s the text of a str
JList(names) == [jt |-> "list", items |-> names, s |-> ""]
JStr(t) == [jt |-> "str", items |-> << >>, s |-> t]
JNum(t) == [jt |-> "int", items |-> << >>, s |-> t]
JBool(t) == [jt |-> "bool", items |-> << >>, s |-> t]
JNull == [jt |-> "NoneType", items |-> << >>, s |-> ""]
JDict == [jt |-> "dict", items |-> << >>, s |-> ""]
JAbsent == [jt |-> "absent", items |-> << >>, s |-> ""]
JRaised == [jt |-> "raised", items |-> << >>, s |-> ""]

\* a + b
PyAdd(a, b) ==
    CASE a.jt = "list" /\ b.jt = "list" -> JList(a.items \o b.items)
      [] a.jt = "str" /\ b.jt = "str" -> JStr(a.s \o b.s)
      [] a.jt \in {"int", "bool"} /\ b.jt \in {"int", "bool"} -> JNum("sum")
      [] OTHER -> JRaised

\* schema.get(key, fallback) of a loaded dict
SchemaGet(v, fallback) == IF v = JAbsent THEN JList(fallback) ELSE v

\* the try block of the loader: open, json.load and the two schema.get raise
\* for a missing file, for text that is no JSON, and for a document that is
\* no dict; the except clause then sets both globals to the fallbacks
LoadSchema(file) ==
    IF file.kind = "dict"
    THEN [cat |-> SchemaGet(file.cat, CAT_FALLBACK), num |-> SchemaGet(file.num, NUM_FALLBACK)]
    ELSE [cat |-> JList(CAT_FALLBACK), num |-> JList(NUM_FALLBACK)]

\* EXPECTED_COLS = CAT_COLS + NUM_COLS
ExpectedCols(cat, num) == PyAdd(cat, num)

FileOfKind(k) == [kind |-> k, cat |-> JAbsent, num |-> JAbsent]
FileDict(cat, num) == [kind |-> "dict", cat |-> cat, num |-> num]

----------------------------------------------------------------------------
(* What a script run renders *)

NoReturn == [fn |-> "none", value |-> PyNone, rows |-> << >>]
Returned(f, v) == [fn |-> f, value |-> v, rows |-> << >>]
ReturnedDf(f, row) == [fn |-> f, value |-> PyNone, rows |-> row]

Idle ==
    [kind |-> "idle", text |-> "", x |-> << >>, y_pred |-> PyNone,
     label_token |-> PyNone, label_en |-> "", style |-> << >>, tip_text |-> ""]

Warning(t) == [Idle EXCEPT !.kind = "warning", !.text = t]

\* the result card, the tips card and the notice, for the label token
Present(label_token) ==
    [Idle EXCEPT !.kind = "result",
                 !.label_token = label_token,
                 !.label_en = LabelEn(label_token),
                 !.style = triage_style_from_token(label_token),
                 !.tip_text = TipText(label_token)]

\* the else branch of the button handler, y_pred being what pipe.predict gave
Predicted(x, y_pred) ==
    [Present(decode_label(y_pred)) EXCEPT !.x = x, !.y_pred = y_pred]

\* AssessBranch without the check of the selection
AssessBranchAgeOnly(age, sel) == IF ~Truthy(age) THEN "age" ELSE "predict"

\* which branch of the button handler runs
AssessBranch(age, sel) ==
    IF ~Truthy(age) THEN "age"
    ELSE IF Len(sel) = 0 THEN "symptom"
    ELSE "predict"

----------------------------------------------------------------------------
(* Inputs *)

Range(q) == {q[i] : i \in 1..Len(q)}

\* the sequences without repetition, of at most n elements of S
SeqsUpTo(S, n) == UNION {[1..m -> S] : m \in 0..n}

EmergencyLabel == "Xaalad deg deg ah"

TrainedLabels ==
    << "Xaalad fudud (Daryeel guri)", "Xaalad dhax dhaxaad eh (Bukaan socod)",
       "Xaalad dhax dhaxaad ah (Bukaan socod)", EmergencyLabel >>

\* the encoders models/label_encoder.joblib may hold: none (the load failed),
\* one fitted on the labels of TRIAGE_TIPS, one fitted on other spellings
Encoders ==
    { NoEncoder,
      Encoder(TrainedLabels),
      Encoder(<< "xaalad deg deg ah", "Xaalad Deg Deg ah (Isbitaal)", "xaalad fudud" >>) }

\* label tokens a classifier fitted on text labels gives directly
TextLabels ==
    Range(TrainedLabels)
    \cup { "xaalad deg deg ah", "XAALAD DEG DEG AH", "Xaalad deg deg ah ", "deg deg",
           "Xaalad degdeg ah", "Xaalad dhax dhaxaad", "Caafimaad", "" }

\* what pipe.predict(x)[0] may be
RawOutputs ==
    {PyInt(i) : i \in (0 - 1)..MaxClassIndex}
    \cup {PyStr(t) : t \in TextLabels}
    \cup {PyFloat("1.0"), PyFloat("nan")}

\* the schema files the form is run under: none, and one naming three columns
FormSchemaFiles ==
    { FileOfKind("missing"),
      FileDict(JList(<< "Age_Group", "Has_Fever", "Chills" >>), JList(<< >>)) }

WidgetKeys ==
    UNION {{WidgetKey(SYMPTOMS[i].name, SYMPTOMS[i].fields[j][1]) :
                j \in 1..Len(SYMPTOMS[i].fields)} : i \in 1..Len(SYMPTOMS)}

Remove(q, e) == SelectSeq(q, LAMBDA z : z # e)

----------------------------------------------------------------------------
(* The form session: every interaction runs the script again *)

InitGlobals(files) ==
    /\ schemaFile \in files
    /\ startup = "ok"
    /\ CAT_COLS = LoadSchema(schemaFile).cat
    /\ NUM_COLS = LoadSchema(schemaFile).num
    /\ EXPECTED_COLS = ExpectedCols(CAT_COLS, NUM_COLS)

InitWidgets ==
    /\ age_disp = PyNone
    /\ selected = << >>
    /\ widgets = [k \in WidgetKeys |-> PyNone]
    /\ outcome = Idle
    /\ reruns = 0

Init ==
    /\ InitGlobals(FormSchemaFiles)
    /\ le \in {NoEncoder, Encoder(TrainedLabels)}
    /\ InitWidgets
    /\ arg = PyNone
    /\ ret = NoReturn

globals == <<schemaFile, startup, CAT_COLS, NUM_COLS, EXPECTED_COLS, le>>

form == <<age_disp, selected, widgets, outcome, reruns>>

\* an interaction runs the script again
Rerun ==
    /\ reruns < MaxReruns
    /\ reruns' = reruns + 1

\* the age selectbox is set, or cleared
SelectAge ==
    /\ Rerun
    /\ \E a \in {PyNone} \cup {PyStr(t) : t \in Range(AGE_DISPLAY)} :
          /\ a # age_disp
          /\ age_disp' = a
    /\ outcome' = Idle
    /\ UNCHANGED <<globals, selected, widgets, arg, ret>>

SelectSymptom ==
    /\ Rerun
    /\ \E g \in Range(SymptomNames) \ Range(selected) :
          selected' = Append(selected, g)
    /\ outcome' = Idle
    /\ UNCHANGED <<globals, age_disp, widgets, arg, ret>>

\* the follow-ups of a deselected symptom are no longer rendered; the widget
\* framework may keep or drop what they held
DeselectSymptom ==
    /\ Rerun
    /\ \E g \in Range(selected) :
          /\ selected' = Remove(selected, g)
          /\ \E keep \in BOOLEAN :
                widgets' = IF keep THEN widgets
                           ELSE [k \in WidgetKeys |->
                                    IF StartsWith(k, g \o ":") THEN PyNone ELSE widgets[k]]
    /\ outcome' = Idle
    /\ UNCHANGED <<globals, age_disp, arg, ret>>

\* a follow-up selectbox of a selected symptom is set, or cleared
AnswerField ==
    /\ Rerun
    /\ \E g \in Range(selected) :
       \E j \in 1..Len(Cfg(g).fields) :
       \E v \in {PyNone} \cup {PyStr(t) : t \in Range(Options(Cfg(g).fields[j][3]))} :
          LET k == WidgetKey(g, Cfg(g).fields[j][1])
          IN  /\ v # widgets[k]
              /\ widgets' = [widgets EXCEPT ![k] = v]
    /\ outcome' = Idle
    /\ UNCHANGED <<globals, age_disp, selected, arg, ret>>

\* what the classifier returns to the form
FormOutputs == {PyInt(3), PyInt(MaxClassIndex), PyStr("Xaalad fudud (Daryeel guri)")}

\* the Assess button
Assess ==
    /\ Rerun
    /\ \E branch \in {AssessBranch(age_disp, selected)} :
          CASE branch = "age" -> outcome' = Warning("Please select your age group.")
            [] branch = "symptom" -> outcome' = Warning("Please select at least one symptom.")
            [] OTHER -> \E x \in {make_input_df(Dict(payload))} :
                        \E y_pred \in FormOutputs :
                            outcome' = Predicted(x, y_pred)
    /\ UNCHANGED <<globals, age_disp, selected, widgets, arg, ret>>

Next == SelectAge \/ SelectSymptom \/ DeselectSymptom \/ AnswerField \/ Assess

Spec == Init /\ [][Next]_vars

----------------------------------------------------------------------------
(* The top of the script: the encoder and the schema are loaded *)

SchemaNames == {"Age_Group", "Has_Fever", "Red_Flag_Count"}

\* what the schema file may hold under "cat_cols" or "num_cols"
JsonValues ==
    {JList(q) : q \in SeqsUpTo(SchemaNames, MaxSchemaCols)}
    \cup {JStr("Age_Group"), JNum("5"), JBool("true"), JNull, JDict}

SchemaFiles ==
    {FileOfKind(k) : k \in {"missing", "garbage", "list", "str", "int", "NoneType"}}
    \cup {FileDict(c, n) : c \in JsonValues \cup {JAbsent}, n \in JsonValues \cup {JAbsent}}

InitStartup ==
    /\ schemaFile \in SchemaFiles
    /\ startup = "loading"
    /\ CAT_COLS = JAbsent
    /\ NUM_COLS = JAbsent
    /\ EXPECTED_COLS = JAbsent
    /\ le = NoEncoder
    /\ InitWidgets
    /\ arg = PyNone
    /\ ret = NoReturn

RunLoader ==
    /\ startup = "loading"
    /\ le' \in {NoEncoder, Encoder(TrainedLabels)}
    /\ CAT_COLS' = LoadSchema(schemaFile).cat
    /\ NUM_COLS' = LoadSchema(schemaFile).num
    /\ EXPECTED_COLS' = ExpectedCols(CAT_COLS', NUM_COLS')
    /\ startup' = IF EXPECTED_COLS' = JRaised THEN "error" ELSE "ok"
    /\ UNCHANGED <<schemaFile, form, arg, ret>>

NextStartup == RunLoader

SpecStartup == InitStartup /\ [][NextStartup]_vars

----------------------------------------------------------------------------
(* make_input_df on the payloads a caller may hand it *)

PayloadKeys == {"Chills", "Age_Group", "Red_Flag_Count", "Notes"}

PayloadValues ==
    { PyNone, NaN, PyStr(""), PyStr("  "), PyStr(" haa "), PyStr("maya"),
      PyInt(2), PyStr("7") }

Payloads ==
    {NoneDict}
    \cup {Dict(q) : q \in {r \in SeqsUpTo(PayloadKeys \X PayloadValues, MaxKeys) :
                              \A i, j \in 1..Len(r) : i # j => r[i][1] # r[j][1]}}

InitAssemble ==
    /\ InitGlobals(FormSchemaFiles)
    /\ le = NoEncoder
    /\ InitWidgets
    /\ arg \in Payloads
    /\ ret = NoReturn

CallMakeInputDf ==
    /\ ret.fn = "none"
    /\ ret' = ReturnedDf("make_input_df", make_input_df(arg))
    /\ UNCHANGED <<globals, form, arg>>

NextAssemble == CallMakeInputDf

SpecAssemble == InitAssemble /\ [][NextAssemble]_vars

----------------------------------------------------------------------------
(* decode_label and the presentation, on what the classifier may return *)

InitLabel ==
    /\ InitGlobals({FileOfKind("missing")})
    /\ le \in Encoders
    /\ InitWidgets
    /\ arg \in RawOutputs
    /\ ret = NoReturn

CallDecodeLabel ==
    /\ ret.fn = "none"
    /\ ret' = Returned("decode_label", decode_label(arg))
    /\ UNCHANGED <<globals, form, arg>>

ShowResult ==
    /\ ret.fn = "decode_label"
    /\ outcome.kind = "idle"
    /\ outcome' = [Present(ret.value) EXCEPT !.y_pred = arg]
    /\ UNCHANGED <<globals, age_disp, selected, widgets, reruns, arg, ret>>

NextLabel == CallDecodeLabel \/ ShowResult

SpecLabel == InitLabel /\ [][NextLabel]_vars

----------------------------------------------------------------------------
(* compute_red_flag_count on payloads whose answers change one at a time *)

Absent == [ty |-> "absent", s |-> "", n |-> 0]

LevelKeys == [i \in 1..Len(SeverityKeys) |-> LevelKey(SeverityKeys[i])]

Fill(keys, v) == IF v = Absent THEN << >> ELSE [i \in 1..Len(keys) |-> <<keys[i], v>>]

\* every danger sign answered d, every severity answered sv and every level lv
UniformPayload(d, sv, lv) == Fill(DangerKeys, d) \o Fill(SeverityKeys, sv) \o Fill(LevelKeys, lv)

SeverityValues == {Absent, PyStr(""), PyStr("fudud"), PyStr("aad u daran")}

Scored(pl, edits) ==
    /\ arg = [pl |-> pl, edits |-> edits]
    /\ ret = Returned("compute_red_flag_count", PyInt(compute_red_flag_count(pl)))

InitRedFlag ==
    /\ InitGlobals({FileOfKind("missing")})
    /\ le = NoEncoder
    /\ InitWidgets
    /\ \E d \in {Absent, PyStr("haa"), PyStr("maya")} :
       \E sv \in SeverityValues : \E lv \in SeverityValues :
          Scored(UniformPayload(d, sv, lv), 0)

\* the payload becomes pl and is scored again
Edit(pl) ==
    /\ arg.edits < MaxEdits
    /\ arg' = [pl |-> pl, edits |-> arg.edits + 1]
    /\ ret' = Returned("compute_red_flag_count", PyInt(compute_red_flag_count(pl)))
    /\ UNCHANGED <<globals, form>>

\* one more danger sign is answered yes
SetYes == \E k \in Range(DangerKeys) : Edit(DictSet(arg.pl, k, PyStr("haa")))

\* one more severity answer, under either key, is very severe
SetVerySevere ==
    \E k \in Range(SeverityKeys) \cup Range(LevelKeys) :
        Edit(DictSet(arg.pl, k, PyStr("aad u daran")))

\* an answer is changed to something else, or taken away
SetOther ==
    \E k \in Range(DangerKeys) \cup Range(SeverityKeys) \cup Range(LevelKeys) :
        \/ \E v \in {PyStr("maya"), PyStr("fudud"), PyStr(""), PyNone} :
              Edit(DictSet(arg.pl, k, v))
        \/ Edit(SelectSeq(arg.pl, LAMBDA e : e[1] # k))

NextRedFlag == SetYes \/ SetVerySevere \/ SetOther

SpecRedFlag == InitRedFlag /\ [][NextRedFlag]_vars

----------------------------------------------------------------------------
(* Claims about make_input_df, under SpecAssemble *)

Assembled == ret.fn = "make_input_df"

SchemaCols == CAT_COLS.items \o NUM_COLS.items

\* C1: the table make_input_df returns has exactly the columns CAT_COLS
\* followed by NUM_COLS, in that order, whatever the payload.
C1_ExactlySchemaColumns ==
    Assembled => DictKeys(ret.rows) = SchemaCols

\* C2: every schema column the payload does not have is null in the
\* assembled row: NaN for a categorical column and NaN for a numeric one.
C2_AbsentColumnsAreNull ==
    Assembled =>
        \A c \in Range(SchemaCols) :
            ~HasKey(OrEmpty(arg), c) => DictGet(ret.rows, c, PyNone) = NaN

\* C8: a categorical column whose input value is None, or is empty once made
\* a string and stripped, is assembled as NaN; every other categorical input
\* is assembled as its stripped string.
C8_CategoricalNormalised ==
    Assembled =>
        \A c \in Range(CAT_COLS.items) :
            HasKey(OrEmpty(arg), c) =>
                LET v == DictGet(OrEmpty(arg), c, PyNone)
                    out == DictGet(ret.rows, c, PyNone)
                IN  IF v = PyNone \/ Strip(PyToStr(v)) = ""
                    THEN out = NaN
                    ELSE out = PyStr(Strip(PyToStr(v)))

\* a padded answer was stripped and a blank one, and a None, became NaN
C8_Witness ==
    /\ Assembled
    /\ arg.ty = "dict"
    /\ DictGet(arg.items, "Chills", NaN) = PyStr(" haa ")
    /\ DictGet(arg.items, "Age_Group", NaN) \in {PyStr("  "), PyNone}
    /\ DictGet(ret.rows, "Chills", PyNone) = PyStr("haa")
    /\ DictGet(ret.rows, "Age_Group", PyNone) = NaN

----------------------------------------------------------------------------
(* Claim about the schema loader, under SpecStartup *)

\* the file is a key-value document whose cat_cols and num_cols, where it has
\* them, are lists of column names
ValidSchema(file) ==
    /\ file.kind = "dict"
    /\ file.cat.jt \in {"absent", "list"}
    /\ file.num.jt \in {"absent", "list"}

\* C6: with a schema file that is missing or invalid in any way, the script
\* falls back to the hardcoded schema and builds EXPECTED_COLS without error.
C6_InvalidSchemaFallsBack ==
    (startup # "loading" /\ ~ValidSchema(schemaFile)) =>
        /\ startup = "ok"
        /\ CAT_COLS = JList(CAT_FALLBACK)
        /\ NUM_COLS = JList(NUM_FALLBACK)
        /\ EXPECTED_COLS = JList(CAT_FALLBACK \o NUM_FALLBACK)

----------------------------------------------------------------------------
(* Claims about decode_label and the presentation, under SpecLabel *)

Decoded == ret.fn = "decode_label"

\* C7: decode_label never raises; with an encoder and an integer class index
\* it returns the encoder's class at that index, and in every other case the
\* raw output as a string.
C7_DecodeNeverRaises ==
    Decoded =>
        /\ ret.value # Raised
        /\ IF le.present /\ arg.ty = "int" /\ arg.n \in 0..(Len(le.classes) - 1)
           THEN ret.value = PyStr(le.classes[arg.n + 1])
           ELSE ret.value = PyStr(PyToStr(arg))

\* the encoder raised on an integer that is no class index
C7_Witness ==
    /\ Decoded
    /\ le.present
    /\ arg.ty = "int"
    /\ arg.n >= Len(le.classes)
    /\ ret.value = PyStr(NatToStr(arg.n))

HasEmergencyMarker(label_token) == Contains(Lower(label_token.s), "deg deg")

\* C4 as stated: every label token holding the emergency marker is shown in
\* red with the emergency advice.
C4_Original ==
    (outcome.kind = "result" /\ HasEmergencyMarker(outcome.label_token)) =>
        /\ outcome.style = Red
        /\ outcome.tip_text = TipEmergency

\* C4 as amended: every label token holding the emergency marker is shown in
\* red; its advice is the emergency advice when the token is exactly the
\* emergency key of TRIAGE_TIPS and the general advice otherwise.
C4_EmergencyMarker ==
    (outcome.kind = "result" /\ HasEmergencyMarker(outcome.label_token)) =>
        /\ outcome.style = Red
        /\ outcome.tip_text =
              IF outcome.label_token.s = EmergencyLabel THEN TipEmergency ELSE TipGeneral

\* an upper-case emergency token is shown in red with the general advice
C4_Witness ==
    /\ outcome.kind = "result"
    /\ outcome.label_token = PyStr("XAALAD DEG DEG AH")
    /\ outcome.style = Red
    /\ outcome.tip_text = TipGeneral

----------------------------------------------------------------------------
(* Claim about compute_red_flag_count, under SpecRedFlag *)

\* C5: the red-flag count is between 0 and 9, and a step that answers one
\* more danger sign yes, or one more severity (under the "_Severity" key or
\* the "_Level" key) very severe, never lowers it.
C5_RedFlagBoundedMonotone ==
    /\ [](ret.value.n \in 0..9)
    /\ [][(SetYes \/ SetVerySevere) => ret'.value.n >= ret.value.n]_vars

\* a level answer set to very severe was counted through the fallback key
C5_Witness ==
    /\ arg.edits = 1
    /\ ~HasKey(arg.pl, "Fever_Severity")
    /\ DictGet(arg.pl, "Fever_Level", PyNone) = PyStr("aad u daran")
    /\ DictGet(arg.pl, "Headache_Level", PyNone) = PyStr("fudud")
    /\ DictGet(arg.pl, "Blood_Cough", PyNone) = PyStr("haa")
    /\ ret.value.n = 6

----------------------------------------------------------------------------
(* Claims about the form session, under Spec *)

IsSelected(group) == group \in Range(selected)

Held(group, col) == widgets[WidgetKey(group, col)]

\* C3: the classifier is called only with an age group and at least one
\* symptom selected; without an age group the age warning is shown, with an
\* age group and no symptom the symptom warning, and no result is rendered.
C3_PredictOnlyWhenAgeAndSymptom ==
    /\ outcome.kind = "result" => (Truthy(age_disp) /\ Len(selected) > 0)
    /\ outcome.kind # "result" => (outcome.x = << >> /\ outcome.label_en = "")
    /\ outcome.kind = "warning" =>
          IF age_disp = PyNone
          THEN outcome.text = "Please select your age group."
          ELSE Len(selected) = 0 /\ outcome.text = "Please select at least one symptom."

\* an age group and no symptom: the symptom warning, and no prediction
C3_Witness ==
    /\ outcome.kind = "warning"
    /\ age_disp = PyStr("adult")
    /\ selected = << >>
    /\ outcome.text = "Please select at least one symptom."
    /\ outcome.x = << >>

\* the first token of DUR_TOKEN_TO_DISPLAY that is shown as the phrase
FirstTokenFor(phrase) ==
    LET at == {i \in 1..Len(DUR_TOKEN_TO_DISPLAY) : DUR_TOKEN_TO_DISPLAY[i][2] = phrase}
    IN  DUR_TOKEN_TO_DISPLAY[CHOOSE i \in at : \A j \in at : i <= j][1]

\* C9: a duration phrase picked in the form goes into the payload as the
\* first token of DUR_TOKEN_TO_DISPLAY shown as that phrase, and that token
\* is shown as the same phrase again.
C9_DurationFirstSeenWins ==
    \A pl \in {payload} :
    \A i \in 1..Len(SYMPTOMS) : \A j \in 1..Len(SYMPTOMS[i].fields) :
        LET group == SYMPTOMS[i].name
            col == SYMPTOMS[i].fields[j][1]
            disp == Held(group, col)
        IN  (IsSelected(group) /\ SYMPTOMS[i].fields[j][3] = "dur" /\ disp # PyNone) =>
                LET token == DictGet(pl, col, PyNone)
                IN  /\ token = PyStr(FirstTokenFor(disp.s))
                    /\ DictGet(DUR_TOKEN_TO_DISPLAY, token.s, "") = disp.s

\* the phrase two tokens are shown as went into the payload as the first
C9_Witness ==
    /\ IsSelected("Cough")
    /\ Held("Cough", "Cough_Duration_Level") = PyStr("2-3 days")
    /\ DictGet(payload, "Cough_Duration_Level", PyNone) = PyStr("dhexdhexaad")

\* the danger signs and the very severe answers the selected symptoms hold
FlagsHeld ==
    Cardinality({<<i, j>> \in (1..Len(SYMPTOMS)) \X (1..4) :
        /\ j <= Len(SYMPTOMS[i].fields)
        /\ IsSelected(SYMPTOMS[i].name)
        /\ \/ /\ SYMPTOMS[i].fields[j][1] \in Range(DangerKeys)
              /\ Held(SYMPTOMS[i].name, SYMPTOMS[i].fields[j][1]) = PyStr("Yes")
           \/ /\ SYMPTOMS[i].fields[j][3] = "sev"
              /\ Held(SYMPTOMS[i].name, SYMPTOMS[i].fields[j][1]) = PyStr("very severe")})

\* C10: the payload reflects the current selection only: a Has_* flag is the
\* yes token exactly for a selected symptom and the no token otherwise, a
\* follow-up answer is in the payload only for a selected symptom, answers of
\* a deselected symptom do not count in Red_Flag_Count, and
\* Fever_With_Fatigue is the yes token exactly when Fever and Fatigue are both
\* selected and is otherwise absent.
C10_PayloadReflectsSelection ==
    \A pl \in {payload} :
    /\ \A i \in 1..Len(SYMPTOMS) :
          /\ DictGet(pl, SYMPTOMS[i].flag, PyNone) =
                IF IsSelected(SYMPTOMS[i].name) THEN PyStr("haa") ELSE PyStr("maya")
          /\ \A j \in 1..Len(SYMPTOMS[i].fields) :
                HasKey(pl, SYMPTOMS[i].fields[j][1]) <=>
                    /\ IsSelected(SYMPTOMS[i].name)
                    /\ Held(SYMPTOMS[i].name, SYMPTOMS[i].fields[j][1]) # PyNone
    /\ IF IsSelected("Fever") /\ IsSelected("Fatigue")
       THEN DictGet(pl, "Fever_With_Fatigue", PyNone) = PyStr("haa")
       ELSE ~HasKey(pl, "Fever_With_Fatigue")
    /\ HasKey(pl, "Red_Flag_Count") =>
          DictGet(pl, "Red_Flag_Count", PyNone) = PyInt(FlagsHeld)

\* a danger sign answered for a symptom since deselected is out of the payload
C10_Witness ==
    /\ ~IsSelected("Cough")
    /\ Held("Cough", "Blood_Cough") = PyStr("Yes")
    /\ ~HasKey(payload, "Blood_Cough")
    /\ DictGet(payload, "Has_Cough", PyNone) = PyStr("maya")
    /\ DictGet(payload, "Red_Flag_Count", PyNone) = PyInt(0)
    /\ ~HasKey(payload, "Fever_With_Fatigue")

=============================================================================
